---- MODULE Spec2Model ----
(***************************************************************************)
(* Model of the build orchestration engine of portable_python.builder:     *)
(* BuildSetup (module resolution, classification, compile loop, log file   *)
(* sequencing) and ModuleBuilder (the per-module compile pipeline with its *)
(* scoped log capture and the tarball download), together with the         *)
(* external-module registry declared in portable_python.builder.db.        *)
(*                                                                         *)
(* Strings that are only compared for equality are TLA+ strings.  Log file *)
(* names, which the code relies on sorting lexicographically, are          *)
(* sequences of character codes.                                           *)
(***************************************************************************)
EXTENDS Naturals, Integers, Sequences, FiniteSets, TLC

(* ------------------------------ bounds -------------------------------- *)

\* Longest module request (number of comma-separated entries) considered
\* when only the construction of a BuildSetup is followed.
MaxReq == 3

\* Longest module request of a BuildSetup whose compile() runs are followed.
MaxBuildReq == 2

\* Number of times compile() is called on the BuildSetup.
MaxRuns == 2

\* Number of _get_logs_path calls followed in the log-sequencing specification.
MaxLogCalls == 100

(* ------------------------------ state --------------------------------- *)

VARIABLES
    pc,             \* where the program is: "new", "ready", "module", "done", "aborted"
    imported,       \* auto_import_siblings() has run: the registries are populated
    telltales,      \* host: the tell-tale files found when the request was auto-detected
    request,        \* BuildSetup(modules=...): the comma-separated entries
    python_spec,    \* BuildSetup.__init__: PythonSpec.to_spec(python_spec)
    warned,         \* the "not in the supported list" warning was logged
    platform,       \* TargetSystem.platform
    architecture,   \* TargetSystem.architecture
    active_modules,
    skipped_modules,
    unknown_modules,
    _log_counter,   \* BuildSetup._log_counter
    prevLog,        \* log file name handed out by the call before the last
    lastLog,        \* log file name handed out by the last _get_logs_path call
    build_folder,   \* disk: BuildSetup.build_folder is a directory
    build_dirs,     \* disk: names whose <build_folder>/build/<name> is a directory
    logs_folder,    \* disk: BuildSetup.logs_folder is a directory
    log_files,      \* disk: log files present in logs_folder (by sequence number)
    downloads,      \* disk: downloads_folder, file name -> content (0: absent)
    deps_dirs,      \* disk: sub-folders of deps_folder that are directories
    host_dirs,      \* host: which of /usr/bin and /bin are directories
    environ,        \* os.environ: variable name -> value ("": not set)
    env_log,        \* names passed to setenv by the last _setup_env, in order
    root_handlers,  \* logging.root.handlers installed by captured_logs
    _log_handler,   \* ModuleBuilder._log_handler of each builder (0: None)
    x_debug,        \* argument of the current BuildSetup.compile call
    runs,           \* number of BuildSetup.compile calls made
    idx,            \* position in active_modules of the builder being compiled
    step,           \* position inside ModuleBuilder.compile
    in_compile,     \* builders whose compile call has started and not ended
    calls,          \* names on which compile was invoked in this run, in order
    steps,          \* steps performed by the current ModuleBuilder.compile call
    ended,          \* how the last ModuleBuilder.compile call ended
    abort_msg       \* message of the runez.abort that ended the run

vars == << pc, imported, telltales, request, python_spec, warned, platform, architecture, active_modules,
           skipped_modules, unknown_modules, _log_counter, prevLog, lastLog,
           build_folder, build_dirs, logs_folder, log_files, downloads,
           deps_dirs, host_dirs, environ, env_log, root_handlers, _log_handler, x_debug, runs, idx, step, in_compile,
           calls, steps, ended, abort_msg >>

setupVars == << imported, request, python_spec, warned, platform, architecture,
                active_modules, skipped_modules, unknown_modules >>

logVars == << _log_counter, prevLog, lastLog, logs_folder, log_files >>

diskVars == << build_folder, build_dirs, downloads >>

envVars == << deps_dirs, host_dirs, environ, env_log >>

runVars == << root_handlers, _log_handler, x_debug, runs, idx, step, in_compile,
              calls, steps, ended, abort_msg >>

(* ------------------------- generic helpers ---------------------------- *)

Range(s) == { s[i] : i \in 1..Len(s) }

Count(s, x) == Cardinality({ i \in 1..Len(s) : s[i] = x })

SeqsUpTo(S, n) == UNION { [1..k -> S] : k \in 0..n }

(* --------------------- the registry (builder/db.py) ------------------- *)

\* BuildSetup.module_builders.available once db.py is imported: the keys in
\* declaration order (module_builder_name is the lower-cased class name).
Registry == << "gdbm", "bdb", "sqlite" >>

\* ModuleBuilder.needs_platforms of each registered class (<< >>: None).
needs_platforms(name) == IF name = "gdbm" THEN << "linux" >> ELSE << >>

\* ModuleBuilder.telltale of each registered class is set (FALSE: None).
telltale(name) == name \in { "gdbm", "sqlite" }

\* os.path.basename(self.url) of each builder; the interpreter's class is
\* declared outside builder/__init__.py and db.py.
url_basename(name) ==
    CASE name = "gdbm"   -> "gdbm-1.18.1.tar.gz"
      [] name = "bdb"    -> "db-6.2.32.tar.gz"
      [] name = "sqlite" -> "version-3.36.0.tar.gz"
      [] OTHER           -> "Python.tar.xz"

\* ModuleBuilder.c_configure_program is set (all registered classes have one).
c_configure_program(name) == TRUE

\* Name of the interpreter's builder: python_spec.family.
PythonName == "cpython"

Platforms == { "linux", "darwin", "windows" }

\* Targets ("platform-arch") of the setups whose compile() runs are followed.
BuildTargets ==
    { << "linux", "x86_64" >>, << "darwin", "arm64" >>, << "windows", "x86_64" >> }

\* Entries a request is made of: registered names, a name that is not
\* registered, the empty entry (as in "a,,b") and the two keywords.
Entries == { "gdbm", "bdb", "sqlite", "zlib", "", "none", "all" }

\* Requests of the setups whose compile() runs are followed: the keywords,
\* the omitted request, and lists of an active, a skippable and an
\* unregistered name.
BuildRequests ==
    { << "all" >>, << "none" >> } \cup SeqsUpTo({ "gdbm", "bdb", "zlib" }, MaxBuildReq)

TelltaleNames == { n \in Range(Registry) : telltale(n) }

(* ------------------------- runez helpers ------------------------------ *)

\* runez.flattened(value, keep_empty=None, split=","): the entries of the
\* comma-separated request, None and empty entries dropped; unique is left
\* at its default (False), so repeated entries are kept.
flattened(entries) == SelectSeq(entries, LAMBDA e : e # "")

\* runez.joined(values, delimiter=...)
RECURSIVE joined(_, _)
joined(values, delimiter) ==
    IF values = << >> THEN ""
    ELSE IF Len(values) = 1 THEN Head(values)
    ELSE Head(values) \o delimiter \o joined(Tail(values), delimiter)

(* --------------------------- TargetSystem ----------------------------- *)

is_applicable(plat, name) ==
    needs_platforms(name) = << >> \/ plat \in Range(needs_platforms(name))

(* ------------------------- AvailableBuilders -------------------------- *)

\* AvailableBuilders.available: filled by the declare decorators when
\* ensure_imported() imports the sibling modules.
available(imp) == IF imp THEN Registry ELSE << >>

\* AvailableBuilders.get_builder: a builder for a registered name, else None.
get_builder(imp, name) == name \in Range(available(imp))

\* ModuleBuilder.existing_telltale on the host.
existing_telltale(host, name) == telltale(name) /\ name \in host

without_telltale_any_target(imp, host, plat) ==
    SelectSeq(available(imp),
              LAMBDA n : telltale(n) /\ ~existing_telltale(host, n))

\* AvailableBuilders.without_telltale
without_telltale(imp, host, plat) ==
    SelectSeq(available(imp),
              LAMBDA n : telltale(n) /\ is_applicable(plat, n)
                         /\ ~existing_telltale(host, n))

(* --------------------------- ModuleBuilder ---------------------------- *)

\* ModuleBuilder.skip_reason ("": None)
skip_reason_any_platform(name, plat) ==
    IF needs_platforms(name) # << >>
    THEN joined(needs_platforms(name), "/") \o " only"
    ELSE ""

skip_reason(name, plat) ==
    IF needs_platforms(name) # << >> /\ ~is_applicable(plat, name)
    THEN joined(needs_platforms(name), "/") \o " only"
    ELSE ""

(* ------------------------ supported versions -------------------------- *)

\* CPYTHON_VERSIONS
CPYTHON_VERSIONS == << "3.9.6", "3.9.5", "3.8.9", "3.7.9", "3.6.9" >>

\* SupportedPythonVersions.family_by_name: family name -> versions.
family_by_name == [f \in { "cpython" } |-> CPYTHON_VERSIONS]

\* Version spec texts given to BuildSetup.
SpecTexts ==
    { "3.9.6", "cpython:3.9.5", "3.8.2", "3.10.0rc1", "pypy:3.7.4", "python",
      "3.x" }

\* runez PythonSpec.to_spec(text): an optional family name (none or
\* "python": cpython), an optional separator and up to three dot-separated
\* numbers; a text of another form gives a spec without family and version
\* (version "": None).  A version it holds is made of numbers only.
to_spec(text) ==
    CASE text = "3.9.6" ->
           [text |-> text, family |-> "cpython", version |-> "3.9.6",
            canonical |-> "cpython:3.9.6"]
      [] text = "cpython:3.9.5" ->
           [text |-> text, family |-> "cpython", version |-> "3.9.5",
            canonical |-> "cpython:3.9.5"]
      [] text = "3.8.2" ->
           [text |-> text, family |-> "cpython", version |-> "3.8.2",
            canonical |-> "cpython:3.8.2"]
      [] text = "pypy:3.7.4" ->
           [text |-> text, family |-> "pypy", version |-> "3.7.4",
            canonical |-> "pypy:3.7.4"]
      [] text = "python" ->
           [text |-> text, family |-> "cpython", version |-> "",
            canonical |-> "cpython:"]
      [] OTHER ->
           [text |-> text, family |-> "", version |-> "",
            canonical |-> "?" \o text]

\* No spec parsed yet.
NoSpec == [text |-> "", family |-> "", version |-> "", canonical |-> ""]

validate_listed_only(spec) ==
    IF spec.version = "" THEN "Invalid python spec: " \o spec.canonical
    ELSE IF spec.family \notin DOMAIN family_by_name
    THEN "Python family '" \o spec.family \o "' is not yet supported"
    ELSE IF spec.version \notin Range(family_by_name[spec.family])
    THEN "Invalid python spec: " \o spec.canonical
    ELSE "ok"

\* SupportedPythonVersions.validate (with family): the abort message, or
\* "warning" when only the warning is logged, or "ok".
validate(spec) ==
    IF spec.version = "" THEN "Invalid python spec: " \o spec.canonical
    ELSE IF spec.family \notin DOMAIN family_by_name
    THEN "Python family '" \o spec.family \o "' is not yet supported"
    ELSE IF spec.version \notin Range(family_by_name[spec.family])
    THEN "warning"
    ELSE "ok"

(* ------------------------------ folders ------------------------------- *)

\* Character codes of the folder names and of the parts of a version spec.
NameChars(s) ==
    CASE s = "build" -> << 98, 117, 105, 108, 100 >>
      [] s = "deps" -> << 100, 101, 112, 115 >>
      [] s = "downloads" -> << 100, 111, 119, 110, 108, 111, 97, 100, 115 >>
      [] s = "logs" -> << 108, 111, 103, 115 >>
      [] s = "cpython" -> << 99, 112, 121, 116, 104, 111, 110 >>
      [] s = "pypy" -> << 112, 121, 112, 121 >>
      [] s = "3.9.6" -> << 51, 46, 57, 46, 54 >>
      [] s = "3.9.5" -> << 51, 46, 57, 46, 53 >>
      [] s = "3.8.2" -> << 51, 46, 56, 46, 50 >>
      [] s = "3.7.4" -> << 51, 46, 55, 46, 52 >>

\* str(python_spec): "<family>:<version>".
spec_str(spec) == NameChars(spec.family) \o << 58 >> \o NameChars(spec.version)

\* str.replace(old, new) for single characters.
replace(codes, old, new) ==
    [i \in 1..Len(codes) |-> IF codes[i] = old THEN new ELSE codes[i]]

\* The root build folder (build_folder="build"), as a path of components.
RootFolder == << NameChars("build") >>

\* self.build_folder = build_folder / str(self.python_spec).replace(":", "-")
build_folder_path(spec) == Append(RootFolder, replace(spec_str(spec), 58, 45))

\* self.deps_folder = self.build_folder / "deps"
deps_folder_path(spec) == Append(build_folder_path(spec), NameChars("deps"))

downloads_folder_in_build(spec) ==
    Append(build_folder_path(spec), NameChars("downloads"))

\* self.downloads_folder = build_folder / "downloads", with the root folder.
downloads_folder_path(spec) == Append(RootFolder, NameChars("downloads"))

\* self.logs_folder = self.build_folder / "logs"
logs_folder_path(spec) == Append(build_folder_path(spec), NameChars("logs"))

\* path is folder or lies under it.
is_within(path, folder) ==
    /\ Len(folder) <= Len(path)
    /\ \A i \in 1..Len(folder) : path[i] = folder[i]

(* ----------------------------- BuildSetup ----------------------------- *)

\* A request is empty (falsy) when it is omitted or the empty string.
IsEmptyRequest(req) == req = << >> \/ req = << "" >>

\* BuildSetup.resolved_module_names
resolved_module_names_no_all(imp, host, plat, req) ==
    IF req = << "none" >> THEN << >>
    ELSE IF IsEmptyRequest(req) THEN without_telltale(imp, host, plat)
    ELSE flattened(req)

resolved_module_names(imp, host, plat, req) ==
    IF req = << "none" >> THEN << >>
    ELSE IF req = << "all" >> THEN available(imp)
    ELSE IF IsEmptyRequest(req) THEN without_telltale(imp, host, plat)
    ELSE flattened(req)

\* The classification loop of BuildSetup.__init__ over the resolved names.
RECURSIVE Classify(_, _, _, _)
Classify(imp, plat, names, acc) ==
    IF names = << >> THEN acc
    ELSE LET name == Head(names)
             reason == skip_reason(name, plat)
         IN  IF ~get_builder(imp, name)
             THEN Classify(imp, plat, Tail(names),
                           [acc EXCEPT !.unknown = Append(@, name)])
             ELSE IF reason # ""
             THEN Classify(imp, plat, Tail(names),
                           [acc EXCEPT !.skipped =
                                Append(@, [name |-> name, reason |-> reason])])
             ELSE Classify(imp, plat, Tail(names),
                           [acc EXCEPT !.active = Append(@, name)])

NoModules == [active |-> << >>, skipped |-> << >>, unknown |-> << >>]

\* BuildSetup.__init__ after a successful validate: the interpreter's
\* get_builder imports the builder modules first, then the request is
\* resolved and classified.
Configure(req, plat, arch, host) ==
    /\ telltales' = IF IsEmptyRequest(req) THEN host ELSE {}
    /\ LET imp == TRUE
           c == Classify(imp, plat,
                         resolved_module_names(imp, host, plat, req),
                         NoModules)
       IN  /\ imported' = imp
           /\ active_modules' = c.active
           /\ skipped_modules' = c.skipped
           /\ unknown_modules' = c.unknown
           /\ _log_handler' = [i \in 1..(Len(c.active) + 1) |-> 0]
    /\ request' = req
    /\ platform' = plat
    /\ architecture' = arch
    /\ pc' = "ready"
    /\ UNCHANGED << _log_counter, prevLog, lastLog, logs_folder, log_files,
                    diskVars, envVars, root_handlers, x_debug, runs, idx, step,
                    in_compile, calls, steps, ended, abort_msg >>

\* BuildSetup.__init__: the spec is parsed and validated first; an abort of
\* validate leaves no setup.
Construct(text, req, plat, arch, host) ==
    /\ pc = "new"
    /\ python_spec' = to_spec(text)
    /\ LET outcome == validate(python_spec')
       IN  IF outcome \in { "ok", "warning" }
           THEN /\ warned' = (outcome = "warning")
                /\ Configure(req, plat, arch, host)
           ELSE /\ pc' = "rejected"
                /\ abort_msg' = outcome
                /\ UNCHANGED << imported, telltales, request, warned, platform,
                                architecture, active_modules, skipped_modules,
                                unknown_modules, logVars, diskVars, envVars,
                                root_handlers, _log_handler, x_debug, runs,
                                idx, step, in_compile, calls, steps, ended >>

(* ------------------------- log file names ----------------------------- *)

\* Decimal digits of n as character codes.
RECURSIVE Digits(_)
Digits(n) == IF n < 10 THEN << 48 + n >>
             ELSE Digits(n \div 10) \o << 48 + (n % 10) >>

\* The format specification {n:02}: zero-padded to a width of at least two.
Format02(n) == IF n < 10 THEN << 48 >> \o Digits(n) ELSE Digits(n)

\* Character codes of the builder names.
Chars(name) ==
    CASE name = "gdbm"    -> << 103, 100, 98, 109 >>
      [] name = "bdb"     -> << 98, 100, 98 >>
      [] name = "sqlite"  -> << 115, 113, 108, 105, 116, 101 >>
      [] OTHER            -> << 99, 112, 121, 116, 104, 111, 110 >>

\* basename = f"{self._log_counter:02}-{name}.log"
LogBasename(counter, name) ==
    Format02(counter) \o << 45 >> \o Chars(name) \o << 46, 108, 111, 103 >>

\* Python's str ordering: lexicographic by code point, a proper prefix first.
RECURSIVE LexLess(_, _)
LexLess(a, b) ==
    IF b = << >> THEN FALSE
    ELSE IF a = << >> THEN TRUE
    ELSE IF Head(a) # Head(b) THEN Head(a) < Head(b)
    ELSE LexLess(Tail(a), Tail(b))

\* BuildSetup._get_logs_path(name): the logs folder is ensured, the counter
\* incremented, and a file already at the returned path deleted.
get_logs_path(name) ==
    /\ logs_folder' = TRUE
    /\ _log_counter' = _log_counter + 1
    /\ prevLog' = lastLog
    /\ lastLog' = LogBasename(_log_counter + 1, name)

\* The files the builders keep in the downloads folder.
DownloadFiles == { url_basename(n) : n \in Range(Registry) \cup { PythonName } }

(* ----------------------- environment export --------------------------- *)

\* os.pathsep of the build host (builds run on linux and macOS).
pathsep == ":"

\* The deps sub-folders the exporters look for.
DepsDirs == { "include", "include/readline", "include/uuid", "include/openssl",
              "lib", "bin", "lib/pkgconfig" }

\* The fixed host folders xenv_path yields.
HostBins == { "/usr/bin", "/bin" }

\* What "make install" of an external module leaves under its prefix, among
\* the folders the exporters look for.
install_layout(name) ==
    IF name = "sqlite" THEN { "include", "lib", "bin", "lib/pkgconfig" }
    ELSE { "include", "lib", "bin" }

\* The xenv_ generators of ModuleBuilder, in declaration order.
xenv_declared ==
    << "xenv_archflags", "xenv_cpath", "xenv_library_path",
       "xenv_ld_library_path", "xenv_macosx_deployment_target", "xenv_path",
       "xenv_pkg_config_path" >>

\* Character codes of the generator names and of the variable names.
Code(s) ==
    CASE s = "xenv_archflags" ->
           << 120, 101, 110, 118, 95, 97, 114, 99, 104, 102, 108, 97, 103, 115 >>
      [] s = "xenv_cpath" ->
           << 120, 101, 110, 118, 95, 99, 112, 97, 116, 104 >>
      [] s = "xenv_library_path" ->
           << 120, 101, 110, 118, 95, 108, 105, 98, 114, 97, 114, 121, 95, 112, 97, 116, 104 >>
      [] s = "xenv_ld_library_path" ->
           << 120, 101, 110, 118, 95, 108, 100, 95, 108, 105, 98, 114, 97, 114, 121, 95, 112, 97, 116, 104 >>
      [] s = "xenv_macosx_deployment_target" ->
           << 120, 101, 110, 118, 95, 109, 97, 99, 111, 115, 120, 95, 100, 101, 112, 108, 111, 121, 109, 101, 110, 116, 95, 116, 97, 114, 103, 101, 116 >>
      [] s = "xenv_path" ->
           << 120, 101, 110, 118, 95, 112, 97, 116, 104 >>
      [] s = "xenv_pkg_config_path" ->
           << 120, 101, 110, 118, 95, 112, 107, 103, 95, 99, 111, 110, 102, 105, 103, 95, 112, 97, 116, 104 >>
      [] s = "ARCHFLAGS" ->
           << 65, 82, 67, 72, 70, 76, 65, 71, 83 >>
      [] s = "CPATH" ->
           << 67, 80, 65, 84, 72 >>
      [] s = "LIBRARY_PATH" ->
           << 76, 73, 66, 82, 65, 82, 89, 95, 80, 65, 84, 72 >>
      [] s = "LD_LIBRARY_PATH" ->
           << 76, 68, 95, 76, 73, 66, 82, 65, 82, 89, 95, 80, 65, 84, 72 >>
      [] s = "MACOSX_DEPLOYMENT_TARGET" ->
           << 77, 65, 67, 79, 83, 88, 95, 68, 69, 80, 76, 79, 89, 77, 69, 78, 84, 95, 84, 65, 82, 71, 69, 84 >>
      [] s = "PATH" ->
           << 80, 65, 84, 72 >>
      [] s = "PKG_CONFIG_PATH" ->
           << 80, 75, 71, 95, 67, 79, 78, 70, 73, 71, 95, 80, 65, 84, 72 >>

\* str.upper() on character codes.
upper(codes) ==
    [i \in 1..Len(codes) |->
        IF codes[i] >= 97 /\ codes[i] <= 122 THEN codes[i] - 32 ELSE codes[i]]

\* The names of the variables the generators can export.
VarNames ==
    { "ARCHFLAGS", "CPATH", "LIBRARY_PATH", "LD_LIBRARY_PATH",
      "MACOSX_DEPLOYMENT_TARGET", "PATH", "PKG_CONFIG_PATH" }

\* name = func_name[5:].upper(), for each generator.
env_names ==
    [f \in Range(xenv_declared) |->
        CHOOSE v \in VarNames :
            Code(v) = upper(SubSeq(Code(f), 6, Len(Code(f))))]

env_name(func_name) == env_names[func_name]

\* name.endswith("PATH")
endswith_PATH(name) ==
    LET codes == Code(name)
    IN  /\ Len(codes) >= 4
        /\ SubSeq(codes, Len(codes) - 3, Len(codes)) = << 80, 65, 84, 72 >>

delimiter_space(name) == " "

\* delimiter = os.pathsep if name.endswith("PATH") else " ", for each name.
delimiters == [v \in VarNames |-> IF endswith_PATH(v) THEN pathsep ELSE " "]

delimiter(name) == delimiters[name]

\* ModuleBuilder.exported_env_vars: sorted(dir(self)) keeps the names that
\* start with "xenv_", in str order.
exported_env_vars ==
    SortSeq(xenv_declared, LAMBDA a, b : LexLess(Code(a), Code(b)))

\* ModuleBuilder.checked_deps_folder(path): the path under deps when it is a
\* directory ("": None).
checked_deps_folder(dirs, path) ==
    IF path \in dirs THEN "deps/" \o path ELSE ""

\* The fragments each generator yields ("": None), flattened.
xenv(func_name, dirs, plat, arch) ==
    CASE func_name = "xenv_archflags" -> << "-arch", arch >>
      [] func_name = "xenv_cpath" ->
           << checked_deps_folder(dirs, "include"),
              checked_deps_folder(dirs, "include/readline"),
              checked_deps_folder(dirs, "include/uuid"),
              checked_deps_folder(dirs, "include/openssl") >>
      [] func_name = "xenv_library_path" ->
           << checked_deps_folder(dirs, "lib") >>
      [] func_name = "xenv_ld_library_path" ->
           << checked_deps_folder(dirs, "lib") >>
      [] func_name = "xenv_macosx_deployment_target" ->
           IF plat = "darwin" THEN << "10.14" >> ELSE << >>
      [] func_name = "xenv_path" ->
           << checked_deps_folder(dirs, "bin"), "/usr/bin", "/bin" >>
      [] func_name = "xenv_pkg_config_path" ->
           << checked_deps_folder(dirs, "lib/pkgconfig") >>

setenv_always(st, name, value) ==
    [env |-> [st.env EXCEPT ![name] = value], log |-> Append(st.log, name)]

setenv_prepend(st, name, value) ==
    IF value # ""
    THEN [env |-> [st.env EXCEPT
                      ![name] = IF @ = "" THEN value ELSE value \o pathsep \o @],
          log |-> Append(st.log, name)]
    ELSE st

\* if value: self.setenv(name, value)
setenv_if(st, name, value) ==
    IF value # ""
    THEN [env |-> [st.env EXCEPT ![name] = value], log |-> Append(st.log, name)]
    ELSE st

\* ModuleBuilder._setup_env over the generator names still to process; st is
\* the environment so far and the names passed to setenv so far.
RECURSIVE setup_env(_, _, _, _, _)
setup_env(func_names, dirs, plat, arch, st) ==
    IF func_names = << >> THEN st
    ELSE LET func_name == Head(func_names)
             name == env_name(func_name)
             value == joined(flattened(xenv(func_name, dirs, plat, arch)),
                             delimiter(name))
         IN  setup_env(Tail(func_names), dirs, plat, arch,
                       setenv_if(st, name, value))

NoEnv == [v \in VarNames |-> ""]

\* The environment the build process is started with.
ProcessEnv == [NoEnv EXCEPT !["PATH"] = "/usr/local/bin:/usr/bin:/bin"]

\* Environments a module's _setup_env can find: nothing set, the process's
\* own, and what an earlier module of the run exported.
PriorEnvs ==
    { NoEnv, ProcessEnv,
      [NoEnv EXCEPT !["ARCHFLAGS"] = "-arch x86_64",
                    !["CPATH"] = "deps/include",
                    !["LIBRARY_PATH"] = "deps/lib",
                    !["LD_LIBRARY_PATH"] = "deps/lib",
                    !["MACOSX_DEPLOYMENT_TARGET"] = "10.14",
                    !["PATH"] = "deps/bin:/usr/bin:/bin",
                    !["PKG_CONFIG_PATH"] = "deps/lib/pkgconfig"] }

(* --------------------------- BuildSetup.compile ----------------------- *)

\* Order in which BuildSetup.compile walks the builders: the active list,
\* then the interpreter.
CompileOrderReversed(actives) ==
    [i \in 1..Len(actives) |-> actives[Len(actives) + 1 - i]] \o << PythonName >>

CompileOrder(actives) == actives \o << PythonName >>

\* Name of the builder at position idx of the run.
CurrentName == CompileOrder(active_modules)[idx]

\* The guard of BuildSetup.compile on the unknown list.
HasUnknownNever(unknowns) == FALSE

HasUnknown(unknowns) == unknowns # << >>

\* BuildSetup.compile up to its loop: the build folder is ensured (and
\* cleaned unless x_debug), then unknown modules abort the call.
CompileStart(dbg) ==
    /\ pc \in { "ready", "done", "aborted" }
    /\ runs < MaxRuns
    /\ runs' = runs + 1
    /\ x_debug' = dbg
    /\ build_folder' = TRUE
    /\ IF dbg
       THEN UNCHANGED << build_dirs, deps_dirs, logs_folder, log_files, downloads >>
       ELSE /\ build_dirs' = {}
            /\ deps_dirs' = {}
            /\ logs_folder' = FALSE
            /\ log_files' = {}
            /\ downloads' =
                   IF is_within(downloads_folder_path(python_spec),
                                build_folder_path(python_spec))
                   THEN [f \in DownloadFiles |-> 0]
                   ELSE downloads
    /\ calls' = << >>
    /\ steps' = << >>
    /\ ended' = "none"
    /\ IF HasUnknown(unknown_modules)
       THEN /\ pc' = "aborted"
            /\ abort_msg' = "Unknown modules: " \o joined(unknown_modules, ", ")
            /\ idx' = 0
       ELSE /\ pc' = "loop"
            /\ abort_msg' = ""
            /\ idx' = 1
    /\ UNCHANGED << setupVars, telltales, _log_counter, prevLog, lastLog,
                    host_dirs, environ, env_log, root_handlers, _log_handler,
                    step, in_compile >>

(* -------------------------- ModuleBuilder.compile --------------------- *)

\* The finally clause of captured_logs: the handler is removed from the root
\* logger and forgotten.
release_leak(handlers, h) == handlers

release(handlers, h) == handlers \ { h }

\* The condition under which ModuleBuilder.compile runs the pipeline.
runs_pipeline_always(dbg, name, dirs) == TRUE

runs_pipeline(dbg, name, dirs) == ~dbg \/ name \notin dirs

\* Where BuildSetup.compile goes when a builder's compile raises: its loop
\* has no handler, the exception leaves the call.
on_failure_continue == "loop"

on_failure == "aborted"

\* An exception leaves ModuleBuilder.compile through captured_logs' finally
\* and then BuildSetup.compile: the run is over.
Raise(msg) ==
    /\ root_handlers' = release(root_handlers, _log_handler[idx])
    /\ _log_handler' = [_log_handler EXCEPT ![idx] = 0]
    /\ in_compile' = in_compile \ { idx }
    /\ ended' = "raised"
    /\ step' = "idle"
    /\ pc' = on_failure
    /\ abort_msg' = msg

Proceed(done, next) ==
    /\ steps' = Append(steps, done)
    /\ step' = next
    /\ UNCHANGED << pc, root_handlers, _log_handler, in_compile, ended, abort_msg >>

\* ModuleBuilder.compile is entered: captured_logs gets the log path and
\* installs the handler, then the pipeline or the x_debug shortcut is chosen.
ModuleBegin ==
    /\ pc = "loop"
    /\ get_logs_path(CurrentName)
    /\ log_files' = log_files \cup { lastLog' }
    /\ root_handlers' = root_handlers \cup { _log_counter' }
    /\ _log_handler' = [_log_handler EXCEPT ![idx] = _log_counter']
    /\ in_compile' = in_compile \cup { idx }
    /\ calls' = Append(calls, CurrentName)
    /\ steps' = << >>
    /\ ended' = "none"
    /\ step' = IF runs_pipeline(x_debug, CurrentName, build_dirs)
               THEN "download" ELSE "finalize"
    /\ pc' = "module"
    /\ UNCHANGED << setupVars, telltales, diskVars, envVars, x_debug, runs, idx,
                    abort_msg >>

\* ModuleBuilder.download, called first by unpack.  The step is recorded as
\* "fetch" when REST_CLIENT.download is called and as "download" when the
\* file is already there; a fetched file holds what the remote served in that
\* run.
fetch_needed_always(files, f) == TRUE

fetch_needed(files, f) == files[f] = 0

Download ==
    /\ pc = "module" /\ step = "download"
    /\ LET f == url_basename(CurrentName)
       IN  IF fetch_needed(downloads, f)
           THEN \/ /\ downloads' = [downloads EXCEPT ![f] = runs]
                   /\ Proceed("fetch", "decompress")
                \/ /\ UNCHANGED downloads
                   /\ steps' = Append(steps, "fetch")
                   /\ Raise("download failed")
           ELSE /\ UNCHANGED downloads
                /\ Proceed("download", "decompress")
    /\ UNCHANGED << setupVars, telltales, logVars, build_folder, build_dirs,
                    envVars, x_debug, runs, idx, calls >>

\* runez.decompress(download_path, build_folder), the rest of unpack.
Decompress ==
    /\ pc = "module" /\ step = "decompress"
    /\ \/ /\ build_dirs' = build_dirs \cup { CurrentName }
          /\ Proceed("decompress", "setup_env")
       \/ /\ \E created \in BOOLEAN :
                 build_dirs' = IF created THEN build_dirs \cup { CurrentName }
                               ELSE build_dirs
          /\ UNCHANGED steps
          /\ Raise("decompress failed")
    /\ UNCHANGED << setupVars, telltales, logVars, build_folder, downloads,
                    envVars, x_debug, runs, idx, calls >>

\* ModuleBuilder._setup_env, as a step of compile.
SetupEnv ==
    /\ pc = "module" /\ step = "setup_env"
    /\ LET r == setup_env(exported_env_vars, deps_dirs, platform, architecture,
                          [env |-> environ, log |-> << >>])
       IN  /\ environ' = r.env
           /\ env_log' = r.log
    /\ Proceed("setup_env", "dispatch")
    /\ UNCHANGED << setupVars, telltales, logVars, diskVars, deps_dirs, host_dirs,
                    x_debug, runs, idx, calls >>

dispatch_any(plat) == "_do_linux_compile"

\* getattr(self, "_do_%s_compile" % platform, None): the function found.
dispatch(plat) ==
    IF plat \in { "linux", "darwin" } THEN "_do_" \o plat \o "_compile"
    ELSE "None"

\* The function whose body runs when func() is called: _do_darwin_compile
\* returns self._do_linux_compile().
do_compile(func) ==
    IF func = "_do_darwin_compile" THEN "_do_linux_compile" ELSE func

\* _prepare, then the platform dispatch of ModuleBuilder.compile.
Dispatch ==
    /\ pc = "module" /\ step = "dispatch"
    /\ IF dispatch(platform) = "None"
       THEN /\ UNCHANGED steps
            /\ Raise("Compiling on platform '" \o platform \o "' is not yet supported")
       ELSE Proceed(do_compile(dispatch(platform)),
                    IF c_configure_program(CurrentName) THEN "configure" ELSE "make")
    /\ UNCHANGED << setupVars, telltales, logVars, diskVars, envVars, x_debug,
                    runs, idx, calls >>

\* An external program run by ModuleBuilder.run: it succeeds or aborts.
Run(program, next) ==
    /\ \/ Proceed(program, next)
       \/ /\ UNCHANGED steps
          /\ Raise(program \o " failed")
    /\ UNCHANGED << setupVars, telltales, logVars, diskVars, host_dirs, environ,
                    env_log, x_debug, runs, idx, calls >>

RunConfigureThenInstall ==
    /\ pc = "module" /\ step = "configure"
    /\ Run("configure", "make install")
    /\ UNCHANGED deps_dirs

\* ModuleBuilder.run_configure
RunConfigure ==
    /\ pc = "module" /\ step = "configure"
    /\ Run("configure", "make")
    /\ UNCHANGED deps_dirs

\* ModuleBuilder.run_make_install: make, then make install.
RunMake ==
    /\ pc = "module" /\ step = "make"
    /\ Run("make", "make install")
    /\ UNCHANGED deps_dirs

\* make install of an external module fills the configure prefix, which is
\* the deps folder; the interpreter is installed under DESTDIR instead.
RunMakeInstall ==
    /\ pc = "module" /\ step = "make install"
    /\ Run("make install", "finalize")
    /\ IF ended' = "raised" \/ CurrentName = PythonName
       THEN UNCHANGED deps_dirs
       ELSE deps_dirs' = deps_dirs \cup install_layout(CurrentName)

\* _finalize, after which captured_logs is left and compile returns to the
\* loop of BuildSetup.compile.
Finalize ==
    /\ pc = "module" /\ step = "finalize"
    /\ steps' = Append(steps, "finalize")
    /\ root_handlers' = release(root_handlers, _log_handler[idx])
    /\ _log_handler' = [_log_handler EXCEPT ![idx] = 0]
    /\ in_compile' = in_compile \ { idx }
    /\ ended' = "returned"
    /\ step' = "idle"
    /\ idx' = idx + 1
    /\ pc' = IF idx = Len(CompileOrder(active_modules)) THEN "done" ELSE "loop"
    /\ UNCHANGED << setupVars, telltales, logVars, diskVars, envVars, x_debug,
                    runs, calls, abort_msg >>

(* ------------------------------- Init --------------------------------- *)

InitDisk ==
    /\ build_folder = FALSE
    /\ build_dirs = {}
    /\ logs_folder = FALSE
    /\ log_files = {}
    /\ downloads = [f \in DownloadFiles |-> 0]
    /\ deps_dirs = {}

InitRun ==
    /\ root_handlers = {}
    /\ _log_handler = << >>
    /\ x_debug = FALSE
    /\ runs = 0
    /\ idx = 0
    /\ step = "idle"
    /\ in_compile = {}
    /\ calls = << >>
    /\ steps = << >>
    /\ ended = "none"
    /\ abort_msg = ""

Init ==
    /\ pc = "new"
    /\ imported = FALSE
    /\ telltales = {}
    /\ request = << >>
    /\ python_spec = NoSpec
    /\ warned = FALSE
    /\ platform = "linux"
    /\ architecture = "x86_64"
    /\ active_modules = << >>
    /\ skipped_modules = << >>
    /\ unknown_modules = << >>
    /\ _log_counter = 0
    /\ prevLog = << >>
    /\ lastLog = << >>
    /\ host_dirs = HostBins
    /\ environ = ProcessEnv
    /\ env_log = << >>
    /\ InitDisk
    /\ InitRun

(* ------------------- module resolution on its own --------------------- *)

NextResolve ==
    \E req \in SeqsUpTo(Entries, MaxReq), plat \in Platforms,
       host \in SUBSET TelltaleNames :
           Construct("3.9.6", req, plat, "x86_64", host)

SpecResolve == Init /\ [][NextResolve]_vars

(* --------------------- spec validation on its own --------------------- *)

NextValidate ==
    \E text \in SpecTexts, req \in BuildRequests, target \in BuildTargets,
       host \in SUBSET TelltaleNames :
           Construct(text, req, target[1], target[2], host)

SpecValidate == Init /\ [][NextValidate]_vars

(* ---------------------- the orchestration run ------------------------- *)

Next ==
    \/ \E req \in BuildRequests, target \in BuildTargets,
          host \in SUBSET TelltaleNames :
              Construct("3.9.6", req, target[1], target[2], host)
    \/ \E dbg \in BOOLEAN : CompileStart(dbg)
    \/ ModuleBegin
    \/ Download
    \/ Decompress
    \/ SetupEnv
    \/ Dispatch
    \/ RunConfigure
    \/ RunMake
    \/ RunMakeInstall
    \/ Finalize

Spec == Init /\ [][Next]_vars

(* -------------------- environment setup on its own -------------------- *)

\* A debug compile of a setup for "bdb" that has reached _setup_env of its
\* first module, over every content of the deps folder left by earlier
\* builds, every host and every prior environment.
InitEnv ==
    /\ \E target \in BuildTargets :
          /\ platform = target[1]
          /\ architecture = target[2]
    /\ python_spec = to_spec("3.9.6")
    /\ warned = FALSE
    /\ deps_dirs \in SUBSET DepsDirs
    /\ host_dirs \in SUBSET HostBins
    /\ environ \in PriorEnvs
    /\ env_log = << >>
    /\ imported = TRUE
    /\ telltales = {}
    /\ request = << "bdb" >>
    /\ active_modules = << "bdb" >>
    /\ skipped_modules = << >>
    /\ unknown_modules = << >>
    /\ _log_counter = 1
    /\ prevLog = << >>
    /\ lastLog = LogBasename(1, "bdb")
    /\ logs_folder = TRUE
    /\ log_files = { LogBasename(1, "bdb") }
    /\ build_folder = TRUE
    /\ build_dirs = { "bdb" }
    /\ downloads = [f \in DownloadFiles |->
                       IF f = url_basename("bdb") THEN 1 ELSE 0]
    /\ pc = "module"
    /\ x_debug = TRUE
    /\ runs = 1
    /\ idx = 1
    /\ step = "setup_env"
    /\ _log_handler = << 1, 0 >>
    /\ root_handlers = { 1 }
    /\ in_compile = { 1 }
    /\ calls = << "bdb" >>
    /\ steps = << "fetch", "decompress" >>
    /\ ended = "none"
    /\ abort_msg = ""

NextEnv == SetupEnv

SpecEnv == InitEnv /\ [][NextEnv]_vars

(* --------------------- log sequencing on its own ---------------------- *)

\* A BuildSetup constructed for every registered module on linux.
InitLogs ==
    /\ pc = "ready"
    /\ imported = TRUE
    /\ telltales = {}
    /\ request = << "all" >>
    /\ python_spec = to_spec("3.9.6")
    /\ warned = FALSE
    /\ platform = "linux"
    /\ architecture = "x86_64"
    /\ host_dirs = HostBins
    /\ environ = ProcessEnv
    /\ env_log = << >>
    /\ LET c == Classify(TRUE, "linux",
                         resolved_module_names(TRUE, {}, "linux", << "all" >>),
                         NoModules)
       IN  /\ active_modules = c.active
           /\ skipped_modules = c.skipped
           /\ unknown_modules = c.unknown
    /\ _log_counter = 0
    /\ prevLog = << >>
    /\ lastLog = << >>
    /\ InitDisk
    /\ InitRun

\* One call of _get_logs_path for a builder of the setup.
LogCall(name) ==
    /\ _log_counter < MaxLogCalls
    /\ get_logs_path(name)
    /\ log_files' = log_files \ { lastLog' }
    /\ UNCHANGED << pc, setupVars, telltales, diskVars, envVars, runVars >>

NextLogs == \E name \in Range(CompileOrder(active_modules)) : LogCall(name)

SpecLogs == InitLogs /\ [][NextLogs]_vars

(* ====================================================================== *)
(*                              Properties                                *)
(* ====================================================================== *)

\* The names BuildSetup.__init__ iterates over.
Requested ==
    Range(resolved_module_names(imported, telltales, platform, request))

SkippedNames == [i \in 1..Len(skipped_modules) |-> skipped_modules[i].name]

Classified ==
    Range(active_modules) \cup Range(SkippedNames) \cup Range(unknown_modules)

Occurrences(n) ==
    Count(active_modules, n) + Count(SkippedNames, n) + Count(unknown_modules, n)

\* C1: after construction every requested name appears in exactly one of
\* active, skipped and unknown, exactly once, and the lists hold no name
\* that was not requested.
C1_PartitionExactlyOnce ==
    pc # "new" =>
        /\ \A n \in Requested : Occurrences(n) = 1
        /\ Classified \subseteq Requested

\* What does hold of the three lists: as sets they partition the requested
\* names, each name as often as it was requested.
PartitionAsSets ==
    pc # "new" =>
        /\ Classified = Requested
        /\ Range(active_modules) \cap Range(SkippedNames) = {}
        /\ Range(active_modules) \cap Range(unknown_modules) = {}
        /\ Range(SkippedNames) \cap Range(unknown_modules) = {}
        /\ \A n \in Requested :
               Occurrences(n) =
                   Count(resolved_module_names(imported, telltales, platform, request), n)

\* The message listing names, separated by a comma and a space.
RECURSIVE Listing(_, _)
Listing(names, k) ==
    IF k = 0 THEN ""
    ELSE IF k = 1 THEN names[1]
    ELSE Listing(names, k - 1) \o ", " \o names[k]

\* C2: a compile() call on a setup with unknown modules, x_debug or not,
\* aborts with one error that names every unknown module, and invokes no
\* builder's compile, the interpreter's included.
C2_UnknownAborts ==
    (runs > 0 /\ unknown_modules # << >>) =>
        /\ pc = "aborted"
        /\ abort_msg = "Unknown modules: "
                         \o Listing(unknown_modules, Len(unknown_modules))
        /\ calls = << >>
        /\ in_compile = {}
        /\ step = "idle"
        /\ _log_counter = 0

C2_Witness ==
    /\ pc = "aborted"
    /\ unknown_modules # << >>
    /\ active_modules # << >>
    /\ runs = MaxRuns
    /\ x_debug

\* C3: in a compile() run without unknown modules, compile is invoked on the
\* active builders in list order, once each, then on the interpreter; never
\* on a skipped module; a builder's compile starts only when the previous
\* one has returned, so no two calls overlap.
C3_SequentialInOrder ==
    (runs > 0 /\ unknown_modules = << >>) =>
        LET order == active_modules \o << PythonName >>
        IN  /\ Len(calls) <= Len(order)
            /\ \A i \in 1..Len(calls) : calls[i] = order[i]
            /\ pc = "done" => calls = order
            /\ \A i \in 1..Len(skipped_modules) :
                   skipped_modules[i].name \notin Range(calls)
            /\ Cardinality(in_compile) <= 1
            /\ in_compile \subseteq { Len(calls) }
            /\ pc \in { "loop", "done" } => in_compile = {}

C3_Witness ==
    /\ pc = "done"
    /\ Len(active_modules) >= 2
    /\ active_modules[1] # active_modules[2]
    /\ skipped_modules # << >>
    /\ Len(calls) = Len(active_modules) + 1

\* C4: when a step of a builder's compile fails, compile() is over: the run
\* is aborted with the builders called so far, no other compile is started,
\* the failed one is not called again, and the failure removes no build
\* folder, download or log file; the engine does nothing more until
\* compile() is called again.
C4_FailureAborts ==
    [][ /\ (pc = "module" /\ ended' = "raised") =>
               /\ pc' = "aborted"
               /\ calls' = calls
               /\ idx' = idx
               /\ in_compile' = {}
               /\ build_dirs \subseteq build_dirs'
               /\ log_files \subseteq log_files'
               /\ \A f \in DownloadFiles : downloads[f] # 0 => downloads'[f] = downloads[f]
        /\ pc = "aborted" => (runs' = runs + 1 /\ calls' = << >>)
      ]_vars

C4_Witness ==
    /\ pc = "aborted"
    /\ ended = "raised"
    /\ abort_msg = "make failed"
    /\ Len(active_modules) >= 2
    /\ idx = 1
    /\ active_modules[1] \in build_dirs

\* The steps of a compile call that runs the pipeline, and of one that takes
\* the x_debug shortcut.
PipelineSteps(fetched) ==
    << IF fetched THEN "fetch" ELSE "download", "decompress", "setup_env",
       "_do_linux_compile", "configure", "make", "make install", "finalize" >>

IsPrefix(s, t) == Len(s) <= Len(t) /\ \A i \in 1..Len(s) : s[i] = t[i]

\* C5: a builder's compile entered in x_debug mode with its build folder
\* present performs finalize and nothing else; entered in any other case it
\* performs download/unpack, environment setup and the build dispatch, in
\* that order, before finalize.
C5_DebugResume ==
    /\ [][ /\ (pc = "loop" /\ pc' = "module") =>
               /\ steps' = << >>
               /\ (x_debug /\ CurrentName \in build_dirs) => step' = "finalize"
               /\ ~(x_debug /\ CurrentName \in build_dirs) => step' = "download"
           /\ (pc = "module" /\ step = "finalize" /\ steps = << >>) =>
               (steps' = << "finalize" >> /\ ended' = "returned")
         ]_vars
    /\ [](pc = "module" =>
               \/ steps = << >> /\ step \in { "download", "finalize" }
               \/ /\ steps # << >>
                  /\ step \notin { "download", "idle" }
                  /\ Len(steps) < Len(PipelineSteps(TRUE))
                  /\ \E b \in BOOLEAN : IsPrefix(steps, PipelineSteps(b)))
    /\ [](ended = "returned" =>
               \/ steps = << "finalize" >>
               \/ \E b \in BOOLEAN : steps = PipelineSteps(b))

C5_Witness ==
    /\ x_debug
    /\ ended = "returned"
    /\ steps = << "finalize" >>
    /\ calls # << >>
    /\ calls[Len(calls)] \in build_dirs

\* C6: outside a builder's compile call, however the last one ended, no
\* handler installed by captured_logs is attached to the root logger and
\* every builder's _log_handler is None.
C6_HandlerReleased ==
    pc # "module" =>
        /\ root_handlers = {}
        /\ \A i \in DOMAIN _log_handler : _log_handler[i] = 0

C6_Witness ==
    /\ pc = "aborted"
    /\ ended = "raised"
    /\ abort_msg = "configure failed"
    /\ _log_counter >= 2
    /\ root_handlers = {}

\* C7: the log file names handed out by _get_logs_path sort in the order
\* of the calls: each name sorts after the one handed out before it.
C7_LogNamesSorted ==
    prevLog # << >> => LexLess(prevLog, lastLog)

\* C8: a setup constructed with "none" has empty active, skipped and unknown
\* lists; one constructed with "all" has every registered name, once, in
\* active or skipped, and an empty unknown list.
C8_NoneAndAll ==
    pc = "ready" =>
        /\ request = << "none" >> =>
               /\ active_modules = << >>
               /\ skipped_modules = << >>
               /\ unknown_modules = << >>
        /\ request = << "all" >> =>
               /\ unknown_modules = << >>
               /\ \A n \in { "gdbm", "bdb", "sqlite" } :
                      Count(active_modules, n) + Count(SkippedNames, n) = 1
               /\ Len(active_modules) + Len(skipped_modules) = Len(Registry)

C8_Witness ==
    /\ pc = "ready"
    /\ request = << "all" >>
    /\ active_modules # << >>
    /\ skipped_modules # << >>

\* C9: a registered module requested by name is skipped exactly when its
\* class lists the platforms it needs and the target's platform is not among
\* them, with a reason that names those platforms; otherwise it is active.
C9_SkippedIffRestricted ==
    pc = "ready" =>
        /\ \A n \in Requested \cap Range(Registry) :
               LET restricted == /\ needs_platforms(n) # << >>
                                 /\ platform \notin Range(needs_platforms(n))
               IN  /\ restricted <=> n \in Range(SkippedNames)
                   /\ ~restricted <=> n \in Range(active_modules)
        /\ \A i \in 1..Len(skipped_modules) :
               /\ skipped_modules[i].name = "gdbm"
               /\ skipped_modules[i].reason = "linux only"
               /\ platform # "linux"

C9_Witness ==
    /\ pc = "ready"
    /\ platform = "darwin"
    /\ request = << "gdbm", "bdb" >>
    /\ SkippedNames = << "gdbm" >>
    /\ skipped_modules[1].reason = "linux only"
    /\ active_modules = << "bdb" >>

\* C10: a download() call made while the builder's file is in the downloads
\* folder fetches nothing and leaves the folder as it is; a fetch is made
\* only when the file is absent.
C10_DownloadIdempotent ==
    [][ (pc = "module" /\ step = "download") =>
            LET f == url_basename(CurrentName)
            IN  /\ downloads[f] # 0 =>
                       /\ downloads' = downloads
                       /\ steps' = Append(steps, "download")
                /\ "fetch" \in Range(steps') => downloads[f] = 0
      ]_vars

C10_Witness ==
    /\ pc = "module"
    /\ steps = << "download" >>
    /\ downloads[url_basename(CurrentName)] # 0
    /\ downloads[url_basename(CurrentName)] < runs

(* ---------------------- environment properties ------------------------ *)

\* The generator that exports each variable.
Exporters == [v \in VarNames |-> CHOOSE f \in Range(xenv_declared) : env_name(f) = v]

Exporter(v) == Exporters[v]

\* The non-empty fragments the generator of v yields on the current disk and
\* target, in yield order.
Fragments(v) ==
    flattened(xenv(Exporter(v), deps_dirs, platform, architecture))

\* The fragments joined left to right by sep.
RECURSIVE JoinedBy(_, _)
JoinedBy(f, sep) ==
    IF Len(f) = 1 THEN f[1]
    ELSE JoinedBy(SubSeq(f, 1, Len(f) - 1), sep) \o sep \o f[Len(f)]

PathVars == { "CPATH", "LIBRARY_PATH", "LD_LIBRARY_PATH", "PATH", "PKG_CONFIG_PATH" }

\* The variable names in the str order of their generators' names.
ExportOrder ==
    << "ARCHFLAGS", "CPATH", "LD_LIBRARY_PATH", "LIBRARY_PATH",
       "MACOSX_DEPLOYMENT_TARGET", "PATH", "PKG_CONFIG_PATH" >>

\* _setup_env of the current module has just returned.
AfterSetupEnv == pc = "module" /\ step = "dispatch"

\* C11: after _setup_env every generator with a non-empty fragment has its
\* variable set to those fragments in yield order, joined by the path-list
\* separator when the name ends in "PATH" and by one space otherwise, and the
\* variables were set in the str order of the generators' names.
C11_JoinedInOrder ==
    AfterSetupEnv =>
        /\ \A v \in VarNames :
               Fragments(v) # << >> =>
                   environ[v] = JoinedBy(Fragments(v),
                                         IF v \in PathVars THEN ":" ELSE " ")
        /\ env_log = SelectSeq(ExportOrder, LAMBDA v : Fragments(v) # << >>)

C11_Witness ==
    /\ AfterSetupEnv
    /\ platform = "darwin"
    /\ Len(Fragments("CPATH")) >= 2
    /\ Len(Fragments("PATH")) = 3
    /\ environ["ARCHFLAGS"] = "-arch arm64"
    /\ Len(env_log) = 7

\* C12: a _setup_env step changes no variable whose generator yields no
\* non-empty fragment: it is neither set, cleared nor overwritten.
C12_NoFragmentNoChange ==
    [][ (pc = "module" /\ step = "setup_env" /\ step' = "dispatch") =>
            \A v \in VarNames :
                Fragments(v) = << >> =>
                    /\ environ'[v] = environ[v]
                    /\ v \notin Range(env_log')
      ]_vars

C12_Witness ==
    /\ AfterSetupEnv
    /\ runs = 2
    /\ Fragments("CPATH") = << >>
    /\ environ["CPATH"] = "deps/include"
    /\ "CPATH" \notin Range(env_log)

\* The subsequence of seq at the indices I.
Pick(seq, I) ==
    LET F[k \in 0..Len(seq)] ==
            IF k = 0 THEN << >>
            ELSE IF k \in I THEN Append(F[k - 1], seq[k]) ELSE F[k - 1]
    IN  F[Len(seq)]

\* The paths that are directories at setup time.
ExistingPaths == { "deps/" \o d : d \in deps_dirs } \cup host_dirs

\* Every path a generator of a path-valued variable can yield.
PathCandidates(v) ==
    xenv(Exporter(v), DepsDirs, platform, architecture)

\* C13: after _setup_env every path-valued variable it set is a list of
\* paths that exist on disk; a variable none of whose paths exist is not set.
C13_NoDanglingPath ==
    AfterSetupEnv =>
        \A v \in PathVars :
            v \in Range(env_log) =>
                \E I \in SUBSET (1..Len(PathCandidates(v))) :
                    LET s == Pick(PathCandidates(v), I)
                    IN  /\ s # << >>
                        /\ Range(s) \subseteq ExistingPaths
                        /\ environ[v] = JoinedBy(s, ":")

\* _setup_env run on the current disk and target from another environment.
SetupFrom(prior) ==
    setup_env(exported_env_vars, deps_dirs, platform, architecture,
              [env |-> prior, log |-> << >>]).env

\* C20 as stated: whatever the prior environment, _setup_env on the same
\* module, target and disk leaves the same values in all seven variables.
C20_SameForAnyPrior ==
    AfterSetupEnv =>
        \A prior \in PriorEnvs :
            LET other == SetupFrom(prior)
            IN  \A v \in VarNames : other[v] = environ[v]

\* C20: whatever the prior environment, _setup_env on the same module, target
\* and disk leaves the same value in every variable whose generator yields a
\* non-empty fragment; the other variables keep their prior values.
C20_SameWhenExported ==
    AfterSetupEnv =>
        \A prior \in PriorEnvs :
            LET other == SetupFrom(prior)
            IN  \A v \in VarNames :
                    IF Fragments(v) # << >>
                    THEN other[v] = environ[v]
                    ELSE other[v] = prior[v]

C20_Witness ==
    /\ AfterSetupEnv
    /\ platform = "linux"
    /\ "PATH" \in Range(env_log)
    /\ environ["MACOSX_DEPLOYMENT_TARGET"] = "10.14"
    /\ \E prior \in PriorEnvs :
           /\ prior["PATH"] # environ["PATH"]
           /\ SetupFrom(prior)["PATH"] = environ["PATH"]
           /\ SetupFrom(prior)["MACOSX_DEPLOYMENT_TARGET"] = ""

(* ------------------------ validation properties ----------------------- *)

\* Texts that are not a version spec, or that name no version.
Malformed == { "python", "3.x" }

\* Texts of prerelease versions.
NonFinal == { "3.10.0rc1" }

\* Texts of well-formed final versions of a family that is not supported.
UnsupportedFamily == { "pypy:3.7.4" }

\* Texts of well-formed final cpython versions that are not in the list.
Unlisted == { "3.8.2" }

\* The constructor has returned or aborted.
Constructed == pc # "new"

FirstOccurrences(seq) ==
    Pick(seq, { i \in 1..Len(seq) : \A j \in 1..(i - 1) : seq[j] # seq[i] })

\* The request names modules itself.
ExplicitRequest ==
    /\ ~IsEmptyRequest(request)
    /\ request \notin { << "none" >>, << "all" >> }

\* C15: for an explicit request the three lists hold the requested names
\* without the empty entries and without repetitions, each list in the order
\* of first occurrence in the request.
C15_DeduplicatedInOrder ==
    (pc = "ready" /\ ExplicitRequest) =>
        LET names == FirstOccurrences(SelectSeq(request, LAMBDA n : n # ""))
        IN  /\ active_modules =
                   SelectSeq(names, LAMBDA n : n \in Range(active_modules))
            /\ SkippedNames =
                   SelectSeq(names, LAMBDA n : n \in Range(SkippedNames))
            /\ unknown_modules =
                   SelectSeq(names, LAMBDA n : n \in Range(unknown_modules))

(* ------------------------- dispatch properties ------------------------ *)

\* The steps of the platform build.
BuildSteps == { "_do_linux_compile", "configure", "make", "make install" }

\* The current or last compile call took the x_debug shortcut.
TookShortcut ==
    \/ steps = << >> /\ step = "finalize"
    \/ steps = << "finalize" >>

\* The target has no _do_<platform>_compile function.
NoDispatch == platform \notin { "linux", "darwin" }

NotSupported == "Compiling on platform '" \o platform \o "' is not yet supported"

\* On darwin a completed build has run what it runs on linux.
DarwinAsLinux ==
    (platform = "darwin" /\ ended = "returned" /\ ~TookShortcut) =>
        \E b \in BOOLEAN : steps = PipelineSteps(b)

\* C16 as stated: on darwin the build step is the one of linux; on a
\* platform without dispatch function no compile call runs configure, make or
\* finalize, none returns, and the abort ends BuildSetup.compile.
C16_UnsupportedAlwaysAborts ==
    /\ DarwinAsLinux
    /\ (NoDispatch /\ pc \notin { "new", "ready", "rejected" }) =>
           /\ Range(steps) \cap (BuildSteps \cup { "finalize" }) = {}
           /\ ended # "returned"
           /\ pc # "done"
           /\ ended = "raised" /\ Len(steps) = 3 =>
                  pc = "aborted" /\ abort_msg = NotSupported

\* C16: on darwin the build step is the one of linux; on a platform without
\* dispatch function a compile call that does not take the x_debug shortcut
\* runs no configure, make or finalize, does not return, and its abort ends
\* BuildSetup.compile.
C16_UnsupportedAborts ==
    /\ DarwinAsLinux
    /\ (NoDispatch /\ pc \in { "module", "aborted" } /\ ~TookShortcut) =>
           /\ Range(steps) \cap (BuildSteps \cup { "finalize" }) = {}
           /\ step \notin BuildSteps \cup { "finalize" }
           /\ ended # "returned"
           /\ ended = "raised" /\ Len(steps) = 3 =>
                  pc = "aborted" /\ abort_msg = NotSupported

C16_Witness ==
    /\ NoDispatch
    /\ pc = "aborted"
    /\ ended = "raised"
    /\ Len(steps) = 3
    /\ steps[3] = "setup_env"
    /\ abort_msg = NotSupported

(* ------------------------ build-tree properties ----------------------- *)

\* The tree under the build folder: the folder itself, the module build
\* folders, deps and logs.
BuildTree == << build_folder, build_dirs, deps_dirs, logs_folder, log_files >>

\* C17: a BuildSetup.compile() call that aborts on the unknown modules leaves
\* the tree under the build folder as it was before the call, in both x_debug
\* modes.
C17_UnknownAbortKeepsTree ==
    [][ (pc \in { "ready", "done", "aborted" } /\ HasUnknown(unknown_modules)
          /\ runs' = runs + 1)
            => BuildTree' = BuildTree
      ]_vars

(* ------------------------- handler properties ------------------------- *)

\* C18: at every point at most one handler installed by captured_logs is
\* attached to the root logger, and it is the handler of the one builder
\* whose compile call is executing.
C18_OneHandlerOfCurrent ==
    /\ Cardinality(root_handlers) <= 1
    /\ Cardinality(in_compile) <= 1
    /\ \A h \in root_handlers :
           /\ pc = "module"
           /\ in_compile = { idx }
           /\ h # 0
           /\ h = _log_handler[idx]

\* The second builder of three is compiling in a second compile() call, the
\* first call having ended in the failure of its second builder.
C18_Witness ==
    /\ pc = "module"
    /\ Len(active_modules) = 2
    /\ runs = 2
    /\ idx = 2
    /\ _log_counter = 4
    /\ root_handlers = { 4 }
    /\ _log_handler = << 0, 4, 0 >>

(* ------------------------- pipeline properties ------------------------ *)

\* The place of each step in the pipeline.
StepOrder(s) ==
    CASE s \in { "download", "fetch" } -> 1
      [] s = "decompress"              -> 2
      [] s = "setup_env"               -> 3
      [] s = "_do_linux_compile"       -> 4
      [] s = "configure"               -> 5
      [] s = "make"                    -> 6
      [] s = "make install"            -> 7
      [] s = "finalize"                -> 8

\* The place of the last step done (0: none yet).
LastOrder(done) == IF done = << >> THEN 0 ELSE StepOrder(done[Len(done)])

\* C19: in a compile call that does not take the x_debug shortcut every step
\* done is the successor of the last one done, a failed step (a failed fetch
\* is recorded, any other is not) ends the call with nothing done after it,
\* and a call that returns has done finalize once, as the last of all the
\* steps.
C19_FixedOrder ==
    [][ (pc = "module" /\ ~TookShortcut) =>
            /\ steps' # steps =>
                   \E s \in { "download", "fetch", "finalize" } \cup BuildSteps
                           \cup { "decompress", "setup_env" } :
                       /\ steps' = Append(steps, s)
                       /\ StepOrder(s) = LastOrder(steps) + 1
            /\ ended' = "raised" =>
                   /\ pc' = "aborted" /\ step' = "idle"
                   /\ steps' = steps \/ (steps = << >> /\ steps' = << "fetch" >>)
            /\ ended' = "returned" =>
                   /\ LastOrder(steps') = StepOrder("finalize")
                   /\ Count(steps', "finalize") = 1
                   /\ Len(steps') = StepOrder("finalize")
            /\ pc' = "module" => steps' # steps /\ ended' = "none"
      ]_vars

C19_Witness ==
    /\ ended = "returned"
    /\ ~x_debug
    /\ platform = "darwin"
    /\ calls = << "bdb", "cpython" >>
    /\ steps = << "fetch", "decompress", "setup_env", "_do_linux_compile",
                  "configure", "make", "make install", "finalize" >>

(* ------------------------ auto-detect properties ---------------------- *)

\* C22: a setup constructed with an empty or omitted request has empty
\* skipped and unknown lists, and every active name is a registered module
\* with a tell-tale, applicable to the target, whose tell-tale file is not on
\* the host.
C22_AutoDetectAllActive ==
    (pc = "ready" /\ IsEmptyRequest(request)) =>
        /\ skipped_modules = << >>
        /\ unknown_modules = << >>
        /\ \A i \in 1..Len(active_modules) :
               LET n == active_modules[i]
               IN  /\ n \in { "gdbm", "sqlite" }
                   /\ n = "gdbm" => platform = "linux"
                   /\ n \notin telltales
                   /\ \A j \in 1..Len(active_modules) :
                          active_modules[j] = n => j = i

C22_Witness ==
    /\ pc = "ready"
    /\ request = << >>
    /\ platform = "darwin"
    /\ telltales = {}
    /\ active_modules = << "sqlite" >>
    /\ skipped_modules = << >>

(* -------------------------- folder properties ------------------------- *)

\* The build, downloads and logs folders of a setup.
Folders(spec) ==
    << build_folder_path(spec), downloads_folder_path(spec),
       logs_folder_path(spec) >>

\* Neither path is the other or lies under it.
Apart(p, q) == ~is_within(p, q) /\ ~is_within(q, p)

\* <build-root>/<family>-<version>
Namespaced(spec) ==
    Append(RootFolder,
           NameChars(spec.family) \o << 45 >> \o NameChars(spec.version))

\* The specs a setup can be constructed with.
AcceptedSpecs ==
    { to_spec(t) : t \in { u \in SpecTexts :
                              validate(to_spec(u)) \in { "ok", "warning" } } }

\* C21: the build, downloads and logs folders of a setup lie under
\* <build-root>/<family>-<version>, and each is apart from the corresponding
\* folder of any setup of another version spec under the same root.
C21_FoldersNamespaced ==
    pc = "ready" =>
        /\ \A i \in 1..3 : is_within(Folders(python_spec)[i], Namespaced(python_spec))
        /\ \A other \in AcceptedSpecs :
               other.canonical # python_spec.canonical =>
                   \A i \in 1..3 :
                       Apart(Folders(python_spec)[i], Folders(other)[i])

\* What does hold: the build, deps and logs folders are namespaced and apart;
\* the downloads folder is the same for every version spec.
BuildAndLogsNamespaced ==
    pc = "ready" =>
        \A other \in AcceptedSpecs :
            /\ is_within(deps_folder_path(python_spec), Namespaced(python_spec))
            /\ \A i \in { 1, 3 } :
                   /\ is_within(Folders(python_spec)[i], Namespaced(python_spec))
                   /\ other.canonical # python_spec.canonical =>
                          Apart(Folders(python_spec)[i], Folders(other)[i])
            /\ Folders(python_spec)[2] = Folders(other)[2]

(* ------------------------- downloads properties ----------------------- *)

\* C23: no step removes or replaces a file of the downloads folder; the
\* clearing done by a compile() call without x_debug empties the module build
\* folders, deps and logs and leaves the downloads as they are, and a builder
\* whose file is there does not fetch it.
C23_DownloadsSurviveClean ==
    [][ /\ \A f \in DownloadFiles :
               downloads[f] # 0 => downloads'[f] = downloads[f]
        /\ (pc \in { "ready", "done", "aborted" } /\ runs' = runs + 1 /\ ~x_debug')
               => /\ build_dirs' = {}
                  /\ deps_dirs' = {}
                  /\ log_files' = {}
                  /\ downloads' = downloads
        /\ (pc = "module" /\ step = "download"
              /\ downloads[url_basename(CurrentName)] # 0)
               => "fetch" \notin Range(steps')
      ]_vars

\* In a second compile() call, without x_debug, a builder has unpacked again
\* the file that the first call fetched.
C23_Witness ==
    /\ pc = "module"
    /\ runs = 2
    /\ ~x_debug
    /\ steps = << "download", "decompress" >>
    /\ downloads[url_basename(CurrentName)] = 1
    /\ build_dirs = { CurrentName }
    /\ deps_dirs = {}

====
